---- MODULE Spec2Model ----
(***************************************************************************)
(* Verification model of the wallpaper generators.                         *)
(*                                                                         *)
(*   wallpapers/doodle_wallpaper.py   quadrant walk with random fills and  *)
(*                                    merged cells (fill mode)             *)
(*   wallpapers/dotted_wallpaper.py   uniform dot lattice and irregular    *)
(*                                    (binary split) dot lattice           *)
(*   wallpapers/recursive_grid.py     quadrant walk drawing the split lines *)
(*   scripts/generate_hyprlock_conf.py, scripts/wordclock.py               *)
(*                                                                         *)
(* Pixel coordinates of the quadrant walk are Python floats obtained by    *)
(* repeated halving of integers.  They are dyadic rationals and are held   *)
(* here exactly as integers in units of 1/Den pixel (Den a power of two),  *)
(* so int(...) is a truncating division by Den.                            *)
(***************************************************************************)
EXTENDS Integers, Sequences, FiniteSets, TLC

VARIABLES
    cfg,           \* module-level settings of doodle_wallpaper.py (MIN_DEPTH, ...)
    tape,          \* the values the seeded random stream has produced so far
    monitors,      \* per run: the MONITORS list of that run
    mi,            \* per run: number of monitors whose pass has been started
    cont,          \* per run: container_x, container_y, container_w, container_h, padding, corner_radius
    stack,         \* per run: pending calls of draw_recursive_shapes (top = head)
    filled_cells,  \* per run: the set of claimed cell keys of the current pass
    drawn,         \* per run: the draw.rounded_rectangle calls made, in order
    accepted,      \* per run: the accepted merges of the current pass, in order
    pos,           \* per run: how many values the run has taken from the seeded random stream
    leaves,        \* per run: number of leaf calls (level < min_level) of the current pass
    dot,           \* per run: the state of a call of dotted_wallpaper.py (an ellipse is
                   \* drawn for every entry of dot_positions, as it is appended)
    fs,            \* the files generate_hyprlock_conf.py reads and writes
    task           \* the call in progress of a function of the scripts (scripts/*.py),
                   \* or the state of a process of recursive_grid.py

vars == <<cfg, tape, monitors, mi, cont, stack, filled_cells, drawn, accepted, pos, leaves, dot, fs, task>>

wallpaperVars == <<cfg, tape, monitors, mi, cont, stack, filled_cells, drawn, accepted, pos, leaves, dot>>

fillVars == <<cfg, tape, monitors, mi, cont, stack, filled_cells, drawn, accepted, pos, leaves>>

-----------------------------------------------------------------------------
(* Bounds of the model *)

\* largest --max-depth explored in irregular mode
MaxGridDepth == 5

\* number of binary digits kept after the point (Den = 2^SubPixelBits)
SubPixelBits == 4

\* at most this many merges are accepted in one pass (the random streams
\* explored are those that fill at most this many shapes per monitor)
MaxAccepted == 2

(* Program constants *)
RENDER_SCALE == 4
CORNER_RADIUS == 20
MIN_DEPTH == 2

RECURSIVE Pow(_, _)
Pow(b, e) == IF e = 0 THEN 1 ELSE b * Pow(b, e - 1)

Den == Pow(2, SubPixelBits)

Min2(a, b) == IF a < b THEN a ELSE b
Max2(a, b) == IF a > b THEN a ELSE b

\* Python int(): truncation toward zero of a value held in 1/Den units
PyInt(v) == IF v >= 0 THEN v \div Den ELSE -((-v) \div Den)

\* Python int(a * s) for a scale s given in halves (1.0 = 2, 1.5 = 3)
IntScaled(a, scale2) == (a * scale2) \div 2

\* the random source yields the values k / RawMax, k in RawVals
RawVals == {0, 1, 2}
RawMax == Cardinality(RawVals)

\* the settings explored: MAX_DEPTH (1x1, 2x2 and 4x4 leaf cells with
\* MIN_DEPTH = 2), MAX_MERGE_SIZE, and the palette
Depths == {1, 2, 3}
MergeSizes == {1, 2, 3}
COLOR_PALETTE == <<"red", "green">>

\* no file and no call of a script function: the state of fs and task while a
\* wallpaper generator runs
NoFiles == [conf |-> "absent", bak |-> "absent", bak_writable |-> TRUE, parent |-> TRUE]
NoTask == [fn |-> "none"]

-----------------------------------------------------------------------------
(* doodle_wallpaper.py: draw_recursive_shapes *)

Runs == DOMAIN stack

\* a call of draw_recursive_shapes: x, y, w, h in 1/Den pixel, and the level
Frame(x, y, w, h, level) == [x |-> x, y |-> y, w |-> w, h |-> h, level |-> level]

\* cell_key / check_key: (int(x), int(y), int(w), int(h))
CellKey(x, y, w, h) == <<PyInt(x), PyInt(y), PyInt(w), PyInt(h)>>

\* the keys of the merge_w x merge_h footprint whose top-left cell is f
FootprintKeys(f, merge_w, merge_h) ==
    { CellKey(f.x + f.w * i, f.y + f.h * j, f.w, f.h) :
        i \in 0 .. (merge_w - 1), j \in 0 .. (merge_h - 1) }

\* random.random() < FILL_PROBABILITY, the stream value being raw / RawMax
\* and FILL_PROBABILITY being given in hundredths
FillDraw(raw, fill_probability) == raw * 100 < fill_probability * RawMax

\* random.randint(1, MAX_MERGE_SIZE)
RandInt(raw, max_merge_size) == 1 + (raw % max_merge_size)

\* random.choice(COLOR_PALETTE)
Choice(raw, palette) == palette[1 + (raw % Len(palette))]

\* ExceedsBoundary without the test of the bottom edge
ExceedsBoundaryRightOnly(f, merge_w, merge_h, c) ==
    f.x + f.w * merge_w > c.container_x + c.container_w

\* exceeds_boundary
ExceedsBoundary(f, merge_w, merge_h, c) ==
    \/ f.x + f.w * merge_w > c.container_x + c.container_w
    \/ f.y + f.h * merge_h > c.container_y + c.container_h

\* OverlapsFilled looking at the first row of the footprint only
OverlapsFilledFirstRow(f, merge_w, merge_h, filled) ==
    FootprintKeys(f, merge_w, 1) \cap filled # {}

\* the loop that looks for a footprint cell already in filled_cells
OverlapsFilled(f, merge_w, merge_h, filled) ==
    FootprintKeys(f, merge_w, merge_h) \cap filled # {}

\* can_merge after the boundary test and the overlap loop
CanMerge(f, merge_w, merge_h, c, filled) ==
    /\ ~ExceedsBoundary(f, merge_w, merge_h, c)
    /\ ~OverlapsFilled(f, merge_w, merge_h, filled)

\* the padded rectangle x1, y1, x2, y2 of a merged shape
ShapeRect(f, merge_w, merge_h, c) ==
    [x1 |-> PyInt(f.x + c.padding * Den),
     y1 |-> PyInt(f.y + c.padding * Den),
     x2 |-> PyInt(f.x + f.w * merge_w - c.padding * Den),
     y2 |-> PyInt(f.y + f.h * merge_h - c.padding * Den)]

\* ShapeRadius without the min over the half sides: always int(corner_radius)
ShapeRadiusUnclamped(s, c) == c.corner_radius

\* radius = min(int(corner_radius), (x2 - x1) // 2, (y2 - y1) // 2), floored at 0
ShapeRadius(s, c) ==
    Max2(0, Min2(c.corner_radius, Min2((s.x2 - s.x1) \div 2, (s.y2 - s.y1) \div 2)))

\* LeafOutcome claiming the cell itself when the merge is refused
LeafOutcomeClaimsOnRefusal(f, filled, c, g, raws) ==
    LET merge_w == RandInt(raws[2], g.MAX_MERGE_SIZE)
        merge_h == RandInt(raws[3], g.MAX_MERGE_SIZE)
        s       == ShapeRect(f, merge_w, merge_h, c)
        keys    == FootprintKeys(f, merge_w, merge_h)
    IN  IF Len(raws) < 3 THEN [filled |-> filled, acc |-> <<>>, cmd |-> <<>>]
        ELSE IF Len(raws) = 3
        THEN [filled |-> filled \cup {CellKey(f.x, f.y, f.w, f.h)}, acc |-> <<>>, cmd |-> <<>>]
        ELSE [filled |-> filled \cup keys,
              acc    |-> << [x |-> f.x, y |-> f.y, w |-> f.w, h |-> f.h,
                             merge_w |-> merge_w, merge_h |-> merge_h, keys |-> keys] >>,
              cmd    |-> IF s.x2 > s.x1 /\ s.y2 > s.y1
                         THEN << [x1 |-> s.x1, y1 |-> s.y1, x2 |-> s.x2, y2 |-> s.y2,
                                  radius |-> ShapeRadius(s, c),
                                  fill |-> Choice(raws[4], g.COLOR_PALETTE)] >>
                         ELSE <<>>]

\* The base case (level < min_level) on frame f, raws being the values it takes
\* from the random stream (none, 1, 3 or 4 of them): the new filled_cells, the
\* accepted merge (if any) and the draw command (if any).
LeafOutcome(f, filled, c, g, raws) ==
    LET merge_w == RandInt(raws[2], g.MAX_MERGE_SIZE)
        merge_h == RandInt(raws[3], g.MAX_MERGE_SIZE)
        s       == ShapeRect(f, merge_w, merge_h, c)
        keys    == FootprintKeys(f, merge_w, merge_h)
        none    == [filled |-> filled, acc |-> <<>>, cmd |-> <<>>]
    IN  IF Len(raws) < 4 THEN none
        ELSE [filled |-> filled \cup keys,
              acc    |-> << [x |-> f.x, y |-> f.y, w |-> f.w, h |-> f.h,
                             merge_w |-> merge_w, merge_h |-> merge_h, keys |-> keys] >>,
              cmd    |-> IF s.x2 > s.x1 /\ s.y2 > s.y1
                         THEN << [x1 |-> s.x1, y1 |-> s.y1, x2 |-> s.x2, y2 |-> s.y2,
                                  radius |-> ShapeRadius(s, c),
                                  fill |-> Choice(raws[4], g.COLOR_PALETTE)] >>
                         ELSE <<>>]

\* The sequences of stream values the base case can take on frame f: none when
\* the cell is already filled, one when the fill draw declines, three when the
\* merge is refused, four (the last one the colour) when it is accepted.
LeafDraws(f, filled, c, g) ==
    IF CellKey(f.x, f.y, f.w, f.h) \in filled THEN { <<>> }
    ELSE UNION { IF ~FillDraw(r1, g.FILL_PROBABILITY) THEN { <<r1>> }
                 ELSE UNION { IF ~CanMerge(f, RandInt(r2, g.MAX_MERGE_SIZE),
                                              RandInt(r3, g.MAX_MERGE_SIZE), c, filled)
                              THEN { <<r1, r2, r3>> }
                              ELSE { <<r1, r2, r3, r4>> : r4 \in RawVals }
                              : r2 \in RawVals, r3 \in RawVals }
                 : r1 \in RawVals }

\* Children with the four recursive calls made in the opposite order
ChildrenReversed(f) ==
    LET mid_x == f.x + (f.w \div 2)
        mid_y == f.y + (f.h \div 2)
        new_w == f.w \div 2
        new_h == f.h \div 2
    IN  << Frame(mid_x, mid_y, new_w, new_h, f.level - 1),
           Frame(f.x, mid_y, new_w, new_h, f.level - 1),
           Frame(mid_x, f.y, new_w, new_h, f.level - 1),
           Frame(f.x, f.y, new_w, new_h, f.level - 1) >>

\* the four recursive calls, in call order
Children(f) ==
    LET mid_x == f.x + (f.w \div 2)
        mid_y == f.y + (f.h \div 2)
        new_w == f.w \div 2
        new_h == f.h \div 2
    IN  << Frame(f.x, f.y, new_w, new_h, f.level - 1),
           Frame(mid_x, f.y, new_w, new_h, f.level - 1),
           Frame(f.x, mid_y, new_w, new_h, f.level - 1),
           Frame(mid_x, mid_y, new_w, new_h, f.level - 1) >>

\* Seeded for a module that never calls random.seed
SeededNever(g) == g.RANDOM_SEED # g.RANDOM_SEED

\* the module was started with RANDOM_SEED set: random.seed(RANDOM_SEED)
Seeded(g) == g.RANDOM_SEED # "None"

\* A process runs after the processes before it have ended.
Finished(r) ==
    /\ stack[r] = <<>>
    /\ mi[r] = Len(monitors[r])
    /\ dot[r].phase \in {"off", "done"}
MayRun(r) == \A q \in Runs : q < r => Finished(q)

\* The values raws[1..n] are what the stream gives run r next: with a seed the
\* stream is a function of the seed, so a value already produced is repeated.
StreamGives(r, raws, n) ==
    Seeded(cfg) => \A k \in 1 .. n : pos[r] + k <= Len(tape) => raws[k] = tape[pos[r] + k]

TapeAfter(r, raws, n) ==
    IF Seeded(cfg) /\ Cardinality(Runs) > 1 /\ pos[r] + n > Len(tape)
    THEN tape \o [k \in 1 .. (pos[r] + n - Len(tape)) |-> raws[Len(tape) - pos[r] + k]]
    ELSE tape

\* number of subdivisions between the root call and the leaves
Subdivisions == Max2(0, cfg.MAX_DEPTH - cfg.MIN_DEPTH + 1)

\* the top-left corners of the leaf cells of the current pass of run r
LeafCorners(r) ==
    LET n  == Pow(2, Subdivisions)
        cw == cont[r].container_w \div n
        ch == cont[r].container_h \div n
    IN  { <<cont[r].container_x + i * cw, cont[r].container_y + j * ch>> :
            i \in 0 .. (n - 1), j \in 0 .. (n - 1) }

\* the cell at corner p is still to be visited: a pending call covers it
Pending(r, p) ==
    \E k \in 1 .. Len(stack[r]) :
        /\ stack[r][k].x <= p[1] /\ p[1] < stack[r][k].x + stack[r][k].w
        /\ stack[r][k].y <= p[2] /\ p[2] < stack[r][k].y + stack[r][k].h

\* corners of the leaf cells already visited in the current pass
VisitedCorners(r) == { p \in LeafCorners(r) : mi[r] > 0 /\ ~Pending(r, p) }

\* the corners of the cells of an accepted merge
MergeCorners(m) ==
    { <<m.x + m.w * i, m.y + m.h * j>> : i \in 0 .. (m.merge_w - 1), j \in 0 .. (m.merge_h - 1) }

\* the record kept of an accepted merge m: m and, of its footprint, the cells
\* that had been visited before it was accepted
Accepted(r, m) ==
    [x |-> m.x, y |-> m.y, w |-> m.w, h |-> m.h, merge_w |-> m.merge_w, merge_h |-> m.merge_h,
     keys |-> m.keys, revisited |-> MergeCorners(m) \cap VisitedCorners(r)]

\* draw_recursive_shapes, base case
Leaf(r) ==
    /\ MayRun(r)
    /\ stack[r] # <<>>
    /\ Head(stack[r]).level < cfg.MIN_DEPTH
    /\ \E raws \in LeafDraws(Head(stack[r]), filled_cells[r], cont[r], cfg) :
         LET out == LeafOutcome(Head(stack[r]), filled_cells[r], cont[r], cfg, raws)
         IN  /\ StreamGives(r, raws, Len(raws))
             /\ Len(accepted[r]) + Len(out.acc) <= cfg.accept_cap
             /\ tape' = TapeAfter(r, raws, Len(raws))
             /\ pos' = [pos EXCEPT ![r] = IF Seeded(cfg) THEN @ + Len(raws) ELSE @]
             /\ filled_cells' = [filled_cells EXCEPT ![r] = out.filled]
             /\ accepted' = [accepted EXCEPT ![r] =
                               @ \o [k \in 1 .. Len(out.acc) |-> Accepted(r, out.acc[k])]]
             /\ drawn' = [drawn EXCEPT ![r] =
                            @ \o [k \in 1 .. Len(out.cmd) |-> [mon |-> mi[r], cmd |-> out.cmd[k]]]]
    /\ stack' = [stack EXCEPT ![r] = Tail(@)]
    /\ leaves' = [leaves EXCEPT ![r] = @ + 1]
    /\ UNCHANGED <<cfg, monitors, mi, cont, dot, fs, task>>

\* draw_recursive_shapes, recursive case
Subdivide(r) ==
    /\ MayRun(r)
    /\ stack[r] # <<>>
    /\ Head(stack[r]).level >= cfg.MIN_DEPTH
    /\ stack' = [stack EXCEPT ![r] = Children(Head(@)) \o Tail(@)]
    /\ UNCHANGED <<cfg, tape, monitors, mi, cont, filled_cells, drawn, accepted, pos, leaves, dot, fs, task>>

-----------------------------------------------------------------------------
(* doodle_wallpaper.py: main loop *)

\* entries of MONITORS; scale2 is the scale in halves (1.5 = 3, 1.0 = 2)
Monitor(name, width, height, scale2, bar, gap) ==
    [name |-> name, width |-> width, height |-> height, scale2 |-> scale2,
     bar_logical_height |-> bar, gap_logical |-> gap]

MonitorSet ==
    { Monitor("DP-1", 3840, 2160, 3, 38, 12),
      Monitor("eDP-1", 1920, 1200, 2, 38, 12),
      Monitor("small", 8, 11, 2, 1, 2) }

\* the container, padding and corner radius the loop body computes for monitor m
\* (container in 1/Den pixel, padding and corner_radius in pixel)
PassSetup(m) ==
    LET bar_px_logical == IntScaled(m.bar_logical_height, m.scale2)
        gap_px_logical == IntScaled(m.gap_logical, m.scale2)
        gap_px == gap_px_logical * RENDER_SCALE
    IN  [container_x |-> gap_px_logical * RENDER_SCALE * Den,
         container_y |-> (bar_px_logical + gap_px_logical) * RENDER_SCALE * Den,
         container_w |-> (m.width - gap_px_logical * 2) * RENDER_SCALE * Den,
         container_h |-> (m.height - (bar_px_logical + gap_px_logical * 2)) * RENDER_SCALE * Den,
         padding |-> Max2(1, gap_px \div 2),
         corner_radius |-> Max2(1, (CORNER_RADIUS * m.scale2 * RENDER_SCALE) \div 2)]

\* one iteration of `for m in MONITORS` up to the call of draw_recursive_shapes;
\* the walk itself is Subdivide and Leaf.  (Where a process also runs
\* dotted_wallpaper.py, that script is run to its end first.)
StartPass(r) ==
    /\ MayRun(r)
    /\ dot[r].phase \in {"off", "done"}
    /\ stack[r] = <<>>
    /\ mi[r] < Len(monitors[r])
    /\ LET c == PassSetup(monitors[r][mi[r] + 1])
       IN  /\ cont' = [cont EXCEPT ![r] = c]
           /\ stack' = [stack EXCEPT ![r] =
                  << Frame(c.container_x, c.container_y, c.container_w, c.container_h,
                           cfg.MAX_DEPTH) >>]
    /\ mi' = [mi EXCEPT ![r] = @ + 1]
    /\ filled_cells' = [filled_cells EXCEPT ![r] = {}]
    /\ accepted' = [accepted EXCEPT ![r] = <<>>]
    /\ leaves' = [leaves EXCEPT ![r] = 0]
    /\ UNCHANGED <<cfg, tape, monitors, drawn, pos, dot, fs, task>>

NoContainer ==
    [container_x |-> 0, container_y |-> 0, container_w |-> 0, container_h |-> 0,
     padding |-> 0, corner_radius |-> 0]

NoDot == [phase |-> "off"]

\* the settings of a run; accept_cap is the bound on accepted merges per pass
Settings(min_depth, max_depth, fill_probability, max_merge_size, palette, seed, cap) ==
    [MIN_DEPTH |-> min_depth, MAX_DEPTH |-> max_depth,
     FILL_PROBABILITY |-> fill_probability, MAX_MERGE_SIZE |-> max_merge_size,
     COLOR_PALETTE |-> palette, RANDOM_SEED |-> seed, accept_cap |-> cap]

\* a monitor whose container (36 x 24) has cells of 4.5 x 3 pixels after three
\* subdivisions
OddMonitor == Monitor("odd", 9, 7, 2, 1, 0)

\* the MAX_DEPTH, monitor and bound on accepted merges a single process is
\* started with (the 8 x 8 grid is explored with one accepted merge)
FillStarts ==
    { <<d, m, MaxAccepted>> : d \in Depths, m \in MonitorSet }
        \cup { <<4, OddMonitor, 1>> }

\* One process of doodle_wallpaper.py started on one monitor, RANDOM_SEED = None.
InitFill ==
    /\ fs = NoFiles
    /\ task = NoTask
    /\ \E s \in FillStarts, max_merge_size \in MergeSizes :
         /\ cfg = Settings(MIN_DEPTH, s[1], 50, max_merge_size, <<"red">>, "None", s[3])
         /\ monitors = [r \in {1} |-> <<s[2]>>]
    /\ tape = <<>>
    /\ mi = [r \in {1} |-> 0]
    /\ cont = [r \in {1} |-> NoContainer]
    /\ stack = [r \in {1} |-> <<>>]
    /\ filled_cells = [r \in {1} |-> {}]
    /\ drawn = [r \in {1} |-> <<>>]
    /\ accepted = [r \in {1} |-> <<>>]
    /\ pos = [r \in {1} |-> 0]
    /\ leaves = [r \in {1} |-> 0]
    /\ dot = [r \in {1} |-> NoDot]

NextFill ==
    \/ \E r \in Runs : StartPass(r)
    \/ \E r \in Runs : Subdivide(r)
    \/ \E r \in Runs : Leaf(r)

SpecFill == InitFill /\ [][NextFill]_vars

\* the process is not stopped from outside: it takes a step whenever it can
SpecFillFair == SpecFill /\ WF_vars(NextFill)

\* draw_recursive_shapes called directly on a 1000 x 1000 container at the
\* origin with fill probability 1.0, no merging and a one-colour palette, for a
\* few start levels, floors and paddings.
InitQuad ==
    /\ fs = NoFiles
    /\ task = NoTask
    /\ \E lv \in { <<4, 2>>, <<3, 2>>, <<2, 2>>, <<3, 1>> }, padding \in {0, 10} :
         /\ cfg = Settings(lv[2], lv[1], 100, 1, <<"red">>, "None", 64)
         /\ cont = [r \in {1} |->
                [container_x |-> 0, container_y |-> 0,
                 container_w |-> 1000 * Den, container_h |-> 1000 * Den,
                 padding |-> padding, corner_radius |-> CORNER_RADIUS]]
         /\ stack = [r \in {1} |-> << Frame(0, 0, 1000 * Den, 1000 * Den, lv[1]) >>]
    /\ tape = <<>>
    /\ monitors = [r \in {1} |-> <<>>]
    /\ mi = [r \in {1} |-> 0]
    /\ filled_cells = [r \in {1} |-> {}]
    /\ drawn = [r \in {1} |-> <<>>]
    /\ accepted = [r \in {1} |-> <<>>]
    /\ pos = [r \in {1} |-> 0]
    /\ leaves = [r \in {1} |-> 0]
    /\ dot = [r \in {1} |-> NoDot]

NextQuad ==
    \/ \E r \in Runs : Subdivide(r)
    \/ \E r \in Runs : Leaf(r)

SpecQuad == InitQuad /\ [][NextQuad]_vars

-----------------------------------------------------------------------------
(* dotted_wallpaper.py: Rect, split_rect, generate_irregular_grid *)

MIN_SEP == 8

Rect(x, y, w, h) == [x |-> x, y |-> y, w |-> w, h |-> h]
X1(rect) == rect.x + rect.w
Y1(rect) == rect.y + rect.h

\* ratios, each as <<numerator, denominator>>.  int(size * ratio) is computed
\* exactly as (size * numerator) \div denominator; the float product agrees with
\* it for every size below 20000 and every ratio but the last (0.35), which the
\* depths explored here never reach.
ratios == << <<1, 2>>, <<1, 2>>, <<3, 5>>, <<2, 5>>, <<11, 20>>, <<9, 20>>, <<13, 20>>, <<7, 20>> >>

\* int(total * ratio)
IntTimesRatio(total, ratio) ==
    IF total >= 0 THEN (total * ratio[1]) \div ratio[2]
    ELSE -(((-total) * ratio[1]) \div ratio[2])

\* split_rect without the max and min that clamp the inner edges
split_rect_unclamped(rect, vertical, ratio, gaps_in) ==
    IF vertical
    THEN LET split_x == rect.x + IntTimesRatio(rect.w, ratio)
             left_x1 == split_x - (gaps_in \div 2)
             right_x0 == split_x + (gaps_in \div 2)
         IN  << Rect(rect.x, rect.y, left_x1 - rect.x, rect.h),
                Rect(right_x0, rect.y, X1(rect) - right_x0, rect.h) >>
    ELSE LET split_y == rect.y + IntTimesRatio(rect.h, ratio)
             top_y1 == split_y - (gaps_in \div 2)
             bot_y0 == split_y + (gaps_in \div 2)
         IN  << Rect(rect.x, rect.y, rect.w, top_y1 - rect.y),
                Rect(rect.x, bot_y0, rect.w, Y1(rect) - bot_y0) >>

split_rect(rect, vertical, ratio, gaps_in) ==
    IF vertical
    THEN LET split_x == rect.x + IntTimesRatio(rect.w, ratio)
             left_x0 == rect.x
             left_x1 == Max2(left_x0, split_x - (gaps_in \div 2))
             right_x0 == Min2(split_x + (gaps_in \div 2), X1(rect))
             right_x1 == X1(rect)
         IN  << Rect(left_x0, rect.y, Max2(0, left_x1 - left_x0), rect.h),
                Rect(right_x0, rect.y, Max2(0, right_x1 - right_x0), rect.h) >>
    ELSE LET split_y == rect.y + IntTimesRatio(rect.h, ratio)
             top_y0 == rect.y
             top_y1 == Max2(top_y0, split_y - (gaps_in \div 2))
             bot_y0 == Min2(split_y + (gaps_in \div 2), Y1(rect))
             bot_y1 == Y1(rect)
         IN  << Rect(rect.x, top_y0, rect.w, Max2(0, top_y1 - top_y0)),
                Rect(rect.x, bot_y0, rect.w, Max2(0, bot_y1 - bot_y0)) >>

\* usable = Rect(gaps_out, top_bar + gaps_out, width - 2*gaps_out, height - top_bar - 2*gaps_out)
Usable(a) ==
    Rect(a.gaps_out, a.top_bar + a.gaps_out, a.width - 2 * a.gaps_out,
         a.height - a.top_bar - 2 * a.gaps_out)

CenterX(usable) == usable.x + (usable.w \div 2)
CenterY(usable) == usable.y + (usable.h \div 2)

\* AddLine moving a value outside [lo, hi] onto the nearer bound
AddLineClamped(S, v, lo, hi, c) ==
    LET u == IF v < lo THEN lo ELSE IF v > hi THEN hi ELSE v
        m == 2 * c - u
    IN  (S \cup {u}) \cup (IF lo <= m /\ m <= hi THEN {m} ELSE {})

\* add_vertical_line / add_horizontal_line on the set S, the region being
\* [lo, hi] and the centre c
AddLine(S, v, lo, hi, c) ==
    IF v < lo \/ v > hi THEN S
    ELSE LET m == 2 * c - v
         IN  (S \cup {v}) \cup (IF lo <= m /\ m <= hi THEN {m} ELSE {})

add_vertical_line(xs, x, usable) == AddLine(xs, x, usable.x, X1(usable), CenterX(usable))
add_horizontal_line(ys, y, usable) == AddLine(ys, y, usable.y, Y1(usable), CenterY(usable))

\* the four add_*_line calls made for a child rectangle r
AddEdges(L, r, usable) ==
    [xs |-> add_vertical_line(add_vertical_line(L.xs, r.x, usable), X1(r), usable),
     ys |-> add_horizontal_line(add_horizontal_line(L.ys, r.y, usable), Y1(r), usable)]

\* IsVertical with the parity reversed
IsVerticalOdd(depth) == depth % 2 = 1

\* vertical = depth % 2 == 0
IsVertical(depth) == depth % 2 = 0

\* the test that keeps a rectangle unsplit
TooSmall(r, a) ==
    \/ r.w <= 2 * a.border_size + a.gaps_in
    \/ r.h <= 2 * a.border_size + a.gaps_in

\* the body of the loop `for r in rects` for rectangle r: p holds new_rects, xs
\* and ys before it
RectPass(p, r, depth, a) ==
    LET usable == Usable(a)
        ratio == ratios[(depth % Len(ratios)) + 1]
        ab == split_rect(r, IsVertical(depth), ratio, a.gaps_in)
        keepA == ab[1].w > 0 /\ ab[1].h > 0
        keepB == ab[2].w > 0 /\ ab[2].h > 0
        LA == IF keepA THEN AddEdges([xs |-> p.xs, ys |-> p.ys], ab[1], usable)
              ELSE [xs |-> p.xs, ys |-> p.ys]
        LB == IF keepB THEN AddEdges(LA, ab[2], usable) ELSE LA
    IN  IF TooSmall(r, a)
        THEN [p EXCEPT !.new_rects = Append(@, r)]
        ELSE [new_rects |-> p.new_rects
                            \o (IF keepA THEN <<ab[1]>> ELSE <<>>)
                            \o (IF keepB THEN <<ab[2]>> ELSE <<>>),
              xs |-> LB.xs, ys |-> LB.ys]

\* the body of `for depth in range(max_depth)` for one depth: the new list of
\* rectangles and the line sets after it
DepthPass(rects, xs, ys, depth, a) ==
    LET step[i \in 0 .. Len(rects)] ==
            IF i = 0 THEN [new_rects |-> <<>>, xs |-> xs, ys |-> ys]
            ELSE RectPass(step[i - 1], rects[i], depth, a)
    IN  step[Len(rects)]

-----------------------------------------------------------------------------
(* dotted_wallpaper.py: create_dotted_wallpaper_irregular / _uniform *)

RECURSIVE SortedSeq(_)
\* sorted(S)
SortedSeq(S) ==
    IF S = {} THEN <<>>
    ELSE LET m == CHOOSE x \in S : \A y \in S : x <= y
         IN  <<m>> \o SortedSeq(S \ {m})

Abs(v) == IF v < 0 THEN -v ELSE v

\* one turn of the minimum-separation loop: kept is what was kept so far
\* (`last` is its last entry, None when it is empty)
KeepFromLast(kept, v) ==
    IF kept = <<>> \/ Abs(v - kept[Len(kept)]) >= MIN_SEP THEN Append(kept, v) ELSE kept

\* MinSepFilter with `last` left at the first value kept
KeepFromFirst(kept, v) ==
    IF kept = <<>> \/ Abs(v - kept[1]) >= MIN_SEP THEN Append(kept, v) ELSE kept

MinSepFilterLastNotUpdated(sorted) ==
    LET kept[i \in 0 .. Len(sorted)] ==
            IF i = 0 THEN <<>> ELSE KeepFromFirst(kept[i - 1], sorted[i])
    IN  kept[Len(sorted)]

\* the minimum-separation loop over a sorted list: keep a value when it is the
\* first or at least MIN_SEP away from the last value kept
MinSepFilter(sorted) ==
    LET kept[i \in 0 .. Len(sorted)] ==
            IF i = 0 THEN <<>> ELSE KeepFromLast(kept[i - 1], sorted[i])
    IN  kept[Len(sorted)]

\* the coordinates of an ellipse call for the dot at (x, y)
Ellipse(x, y, dot_radius) ==
    [x0 |-> x - dot_radius, y0 |-> y - dot_radius, x1 |-> x + dot_radius, y1 |-> y + dot_radius]

\* the ellipse calls made for the dot positions ps, in order
Ellipses(ps, dot_radius) ==
    [k \in 1 .. Len(ps) |-> Ellipse(ps[k][1], ps[k][2], dot_radius)]

\* the test of the irregular drawing loop: the dot (x, y) is kept
InUsable(x, y, a) ==
    /\ ~(x < a.gaps_out \/ x > a.width - a.gaps_out)
    /\ ~(y < a.top_bar + a.gaps_out \/ y > a.height - a.gaps_out)

\* dot_positions of the irregular drawing loop, in loop order
IrregularPositions(filtered_xs, filtered_ys, a) ==
    LET n == Len(filtered_ys)
        all == [k \in 1 .. (Len(filtered_xs) * n) |->
                   << filtered_xs[((k - 1) \div n) + 1], filtered_ys[((k - 1) % n) + 1] >>]
        Kept(p) == InUsable(p[1], p[2], a)
    IN  SelectSeq(all, Kept)

\* int(a / b) of Python for b > 0
IntDiv(a, b) == IF a >= 0 THEN a \div b ELSE -((-a) \div b)

\* the number of leading indices i of 0 .. count whose coordinate
\* start + i * spacing is not beyond limit (the loop breaks on the first beyond)
LeadingWithin(start, spacing, count, limit) ==
    LET beyond == { i \in 0 .. count : start + i * spacing > limit } \cup { count + 1 }
    IN  IF count < 0 THEN 0 ELSE CHOOSE i \in beyond : \A j \in beyond : i <= j

\* UniformPositions without the two `break` tests
UniformPositionsNoBreak(a) ==
    LET cols == IntDiv(a.width - 2 * a.gaps_out, a.dot_spacing) + 2
        rows == IntDiv(a.height - a.top_bar - 2 * a.gaps_out, a.dot_spacing) + 2
    IN  [k \in 1 .. (rows * cols) |->
            << a.gaps_out + ((k - 1) % cols) * a.dot_spacing,
               a.top_bar + a.gaps_out + ((k - 1) \div cols) * a.dot_spacing >>]

\* dot_positions of create_dotted_wallpaper_uniform, in loop order
UniformPositions(a) ==
    LET start_x == a.gaps_out
        start_y == a.top_bar + a.gaps_out
        available_width == a.width - 2 * a.gaps_out
        available_height == a.height - a.top_bar - 2 * a.gaps_out
        dots_x == IntDiv(available_width, a.dot_spacing) + 1
        dots_y == IntDiv(available_height, a.dot_spacing) + 1
        rows == LeadingWithin(start_y, a.dot_spacing, dots_y, a.height - a.gaps_out)
        cols == LeadingWithin(start_x, a.dot_spacing, dots_x, a.width - a.gaps_out)
    IN  [k \in 1 .. (rows * cols) |->
            << start_x + ((k - 1) % cols) * a.dot_spacing,
               start_y + ((k - 1) \div cols) * a.dot_spacing >>]

\* generate_irregular_grid up to the depth loop: usable, rects, and the outer
\* edges added to xs and ys
GridStart(r) ==
    /\ MayRun(r)
    /\ dot[r].phase = "called"
    /\ dot[r].a.mode = "irregular"
    /\ LET usable == Usable(dot[r].a)
       IN  dot' = [dot EXCEPT ![r] =
              [@ EXCEPT !.phase = "grid",
                        !.rects = <<usable>>,
                        !.depth = 0,
                        !.xs = add_vertical_line(add_vertical_line({}, usable.x, usable),
                                                 X1(usable), usable),
                        !.ys = add_horizontal_line(add_horizontal_line({}, usable.y, usable),
                                                   Y1(usable), usable)]]
    /\ UNCHANGED <<fillVars, fs, task>>

\* one iteration of `for depth in range(max_depth)`
GridDepth(r) ==
    /\ MayRun(r)
    /\ dot[r].phase = "grid"
    /\ dot[r].depth < dot[r].a.max_depth
    /\ LET p == DepthPass(dot[r].rects, dot[r].xs, dot[r].ys, dot[r].depth, dot[r].a)
       IN  dot' = [dot EXCEPT ![r] =
              [@ EXCEPT !.rects = p.new_rects, !.xs = p.xs, !.ys = p.ys, !.depth = @ + 1]]
    /\ UNCHANGED <<fillVars, fs, task>>

\* generate_irregular_grid returns; the caller sorts the lines and thins them
FilterLines(r) ==
    /\ MayRun(r)
    /\ dot[r].phase = "grid"
    /\ dot[r].depth >= dot[r].a.max_depth
    /\ dot' = [dot EXCEPT ![r] =
          [@ EXCEPT !.phase = "filtered",
                    !.filtered_xs = MinSepFilter(SortedSeq(dot[r].xs)),
                    !.filtered_ys = MinSepFilter(SortedSeq(dot[r].ys))]]
    /\ UNCHANGED <<fillVars, fs, task>>

\* the drawing loop of create_dotted_wallpaper_irregular
PlaceDots(r) ==
    /\ MayRun(r)
    /\ dot[r].phase = "filtered"
    /\ dot' = [dot EXCEPT ![r] =
          [@ EXCEPT !.phase = "done",
                    !.dot_positions =
                        IrregularPositions(dot[r].filtered_xs, dot[r].filtered_ys, dot[r].a)]]
    /\ UNCHANGED <<fillVars, fs, task>>

\* create_dotted_wallpaper_uniform
Uniform(r) ==
    /\ MayRun(r)
    /\ dot[r].phase = "called"
    /\ dot[r].a.mode = "uniform"
    /\ dot' = [dot EXCEPT ![r] =
          [@ EXCEPT !.phase = "done", !.dot_positions = UniformPositions(dot[r].a)]]
    /\ UNCHANGED <<fillVars, fs, task>>

\* command-line arguments explored
DotArgs(mode, width, height, dot_radius, dot_spacing, gaps_out, gaps_in, border_size, top_bar, max_depth) ==
    [mode |-> mode, width |-> width, height |-> height, dot_radius |-> dot_radius,
     dot_spacing |-> dot_spacing, gaps_out |-> gaps_out, gaps_in |-> gaps_in,
     border_size |-> border_size, top_bar |-> top_bar, max_depth |-> max_depth]

Sizes == { <<800, 600>>, <<40, 30>>, <<21, 17>>, <<5, 4>> }
SmallSizes == { s \in Sizes : s[1] <= 100 }

IrregularArgs ==
    { DotArgs("irregular", s[1], s[2], dr, 240, go, gi, b, tb, d) :
        s \in Sizes, dr \in {0, 2}, go \in {0, 2}, gi \in {0, 6, 8}, b \in {0, 4},
        tb \in {0, 3}, d \in 0 .. MaxGridDepth }
    \cup { DotArgs("irregular", 3840, 2160, 2, 240, 12, 6, 4, 32, d) : d \in 0 .. MaxGridDepth }

UniformArgs ==
    { DotArgs("uniform", s[1], s[2], dr, sp, go, 6, 4, tb, 8) :
        s \in SmallSizes, dr \in {0, 2}, sp \in {7, 13, 240}, go \in {0, 2}, tb \in {0, 3} }
    \cup { DotArgs("uniform", s[1], s[2], 2, 240, 12, 6, 4, 32, 8) :
             s \in { <<800, 600>>, <<3840, 2160>> } }

DotCall(a) ==
    [phase |-> "called", a |-> a, rects |-> <<>>, depth |-> 0, xs |-> {}, ys |-> {},
     filtered_xs |-> <<>>, filtered_ys |-> <<>>, dot_positions |-> <<>>]

NoSettings == Settings(MIN_DEPTH, 0, 50, 1, <<"red">>, "None", 0)

\* One process of dotted_wallpaper.py, in either mode.
InitDots ==
    /\ fs = NoFiles
    /\ task = NoTask
    /\ cfg = NoSettings
    /\ tape = <<>>
    /\ monitors = [r \in {1} |-> <<>>]
    /\ mi = [r \in {1} |-> 0]
    /\ cont = [r \in {1} |-> NoContainer]
    /\ stack = [r \in {1} |-> <<>>]
    /\ filled_cells = [r \in {1} |-> {}]
    /\ drawn = [r \in {1} |-> <<>>]
    /\ accepted = [r \in {1} |-> <<>>]
    /\ pos = [r \in {1} |-> 0]
    /\ leaves = [r \in {1} |-> 0]
    /\ \E a \in IrregularArgs \cup UniformArgs : dot = [r \in {1} |-> DotCall(a)]

NextDots ==
    \/ \E r \in Runs : GridStart(r)
    \/ \E r \in Runs : GridDepth(r)
    \/ \E r \in Runs : FilterLines(r)
    \/ \E r \in Runs : PlaceDots(r)
    \/ \E r \in Runs : Uniform(r)

SpecDots == InitDots /\ [][NextDots]_vars

-----------------------------------------------------------------------------
(* Two processes, one after the other, with RANDOM_SEED set *)

PairMonitors == { Monitor("eDP-1", 1920, 1200, 2, 38, 12), Monitor("small", 8, 11, 2, 1, 2) }

\* the MONITORS lists of the first process
PairLists ==
    { <<m>> : m \in PairMonitors } \cup { <<a, m>> : a \in PairMonitors, m \in PairMonitors }

\* the arguments of the generate_irregular_grid calls of a pair
PairArgs == { DotArgs("irregular", 800, 600, 2, 240, 0, 0, 0, 0, 2) }

\* the MAX_DEPTH and the MONITORS list of the first process (the 2 x 2 grid is
\* explored on one monitor, with one accepted merge)
PairStarts ==
    { <<1, l>> : l \in PairLists } \cup { <<2, << Monitor("small", 8, 11, 2, 1, 2) >> >> }

\* Both processes have the same settings and seed; the second one has the same
\* MONITORS list as the first or only the last monitor of it.  Each calls
\* create_dotted_wallpaper_irregular beforehand, both with the same arguments.
InitPair ==
    /\ fs = NoFiles
    /\ task = NoTask
    /\ \E st \in PairStarts, max_merge_size \in {1, 2} :
         /\ cfg = Settings(MIN_DEPTH, st[1], 50, max_merge_size, COLOR_PALETTE, "seed", 1)
         /\ \E second \in { st[2], << st[2][Len(st[2])] >> } :
              monitors = [r \in {1, 2} |-> IF r = 1 THEN st[2] ELSE second]
    /\ tape = <<>>
    /\ mi = [r \in {1, 2} |-> 0]
    /\ cont = [r \in {1, 2} |-> NoContainer]
    /\ stack = [r \in {1, 2} |-> <<>>]
    /\ filled_cells = [r \in {1, 2} |-> {}]
    /\ drawn = [r \in {1, 2} |-> <<>>]
    /\ accepted = [r \in {1, 2} |-> <<>>]
    /\ pos = [r \in {1, 2} |-> 0]
    /\ leaves = [r \in {1, 2} |-> 0]
    /\ \E a \in PairArgs : dot = [r \in {1, 2} |-> DotCall(a)]

NextPair ==
    \/ \E r \in Runs : StartPass(r)
    \/ \E r \in Runs : Subdivide(r)
    \/ \E r \in Runs : Leaf(r)
    \/ \E r \in Runs : GridStart(r)
    \/ \E r \in Runs : GridDepth(r)
    \/ \E r \in Runs : FilterLines(r)
    \/ \E r \in Runs : PlaceDots(r)

SpecPair == InitPair /\ [][NextPair]_vars

-----------------------------------------------------------------------------
(* Properties of dotted_wallpaper.py *)

Range(seq) == { seq[i] : i \in 1 .. Len(seq) }

Filtered(r) == dot[r].phase \in {"filtered", "done"}

\* the draw.ellipse calls of run r: one per entry of dot_positions
DrawnEllipses(r) == Ellipses(dot[r].dot_positions, dot[r].a.dot_radius)

\* the container [gaps_out, width - gaps_out] x [top_bar + gaps_out, height - gaps_out]
BoxInContainer(e, a, margin) ==
    /\ a.gaps_out - margin <= e.x0
    /\ e.x1 <= a.width - a.gaps_out + margin
    /\ a.top_bar + a.gaps_out - margin <= e.y0
    /\ e.y1 <= a.height - a.gaps_out + margin

\* C3 as stated: in both dot modes the box [x - dot_radius, x + dot_radius] x
\* [y - dot_radius, y + dot_radius] of every drawn dot lies within the
\* container, for every dot_radius >= 0.
C3_DotBoxInContainer ==
    \A r \in Runs : dot[r].phase = "done" =>
        \A e \in Range(DrawnEllipses(r)) : BoxInContainer(e, dot[r].a, 0)

\* C3 as amended: in both dot modes the centre of every drawn dot lies within
\* the container, so its box lies within the container enlarged by dot_radius
\* on every side (and within the container itself when dot_radius = 0).
C3_DotCentreInContainer ==
    \A r \in Runs : dot[r].phase = "done" =>
        /\ \A p \in Range(dot[r].dot_positions) :
             BoxInContainer(Ellipse(p[1], p[2], 0), dot[r].a, 0)
        /\ \A e \in Range(DrawnEllipses(r)) :
             BoxInContainer(e, dot[r].a, dot[r].a.dot_radius)

\* a dot of positive radius has been drawn on the far edge of the container
C3_Witness ==
    \E r \in Runs :
        /\ dot[r].phase = "done"
        /\ dot[r].a.dot_radius > 0
        /\ \E k \in 1 .. Len(dot[r].dot_positions) :
             dot[r].dot_positions[k][1] = dot[r].a.width - dot[r].a.gaps_out

\* v is mirrored into S about c whenever the mirror lies in [lo, hi]
MirrorKept(S, lo, hi, c) ==
    \A v \in S : (lo <= 2 * c - v /\ 2 * c - v <= hi) => (2 * c - v) \in S

\* C4: in irregular mode the line sets retained after the minimum-separation
\* filter are mirror-symmetric about the centre of the usable area: the mirror
\* 2*cx - x of every retained x (when inside the container) is retained, and
\* likewise for y about cy.
C4_FilteredSymmetric ==
    \A r \in Runs : Filtered(r) =>
        LET usable == Usable(dot[r].a)
        IN  /\ MirrorKept(Range(dot[r].filtered_xs), usable.x, X1(usable), CenterX(usable))
            /\ MirrorKept(Range(dot[r].filtered_ys), usable.y, Y1(usable), CenterY(usable))

\* consecutive values of a list are in increasing order and at least d apart
Separated(seq, d) == \A i \in 1 .. (Len(seq) - 1) : seq[i + 1] - seq[i] >= d

\* C5: in irregular mode, after the minimum-separation filter, no two
\* consecutive values of filtered_xs (and of filtered_ys), in sorted order,
\* differ by less than min_sep.
C5_MinSeparation ==
    \A r \in Runs : Filtered(r) =>
        /\ Separated(dot[r].filtered_xs, MIN_SEP)
        /\ Separated(dot[r].filtered_ys, MIN_SEP)
        /\ Range(dot[r].filtered_xs) \subseteq dot[r].xs
        /\ Range(dot[r].filtered_ys) \subseteq dot[r].ys

\* the filter has dropped a line and has kept a line after the dropped one
C5_Witness ==
    \E r \in Runs :
        /\ Filtered(r)
        /\ \E v \in dot[r].xs \ Range(dot[r].filtered_xs) :
             \E i \in 1 .. Len(dot[r].filtered_xs) : dot[r].filtered_xs[i] > v

\* C6: in irregular mode, for every max_depth >= 0 and every container of
\* positive size, the X and Y lines used to place dots (after the filter)
\* include both container edges on each axis, so a dot is placed at each of
\* the four corners of the container.
C6_OuterFrameKept ==
    \A r \in Runs :
        LET usable == Usable(dot[r].a)
        IN  (Filtered(r) /\ usable.w > 0 /\ usable.h > 0) =>
              /\ {usable.x, X1(usable)} \subseteq Range(dot[r].filtered_xs)
              /\ {usable.y, Y1(usable)} \subseteq Range(dot[r].filtered_ys)
              /\ dot[r].phase = "done" =>
                   { <<x, y>> : x \in {usable.x, X1(usable)}, y \in {usable.y, Y1(usable)} }
                       \subseteq Range(dot[r].dot_positions)

\* the 800x600 scenario: top_bar = gaps_out = gaps_in = border_size = 0
Scenario800(a, depth) ==
    /\ a.mode = "irregular"
    /\ a.width = 800 /\ a.height = 600
    /\ a.top_bar = 0 /\ a.gaps_out = 0 /\ a.gaps_in = 0 /\ a.border_size = 0
    /\ a.max_depth = depth

\* generate_irregular_grid has returned
GridReturned(r) == dot[r].phase \in {"filtered", "done"}

\* C10 as stated: for the 800x600 container at the origin and depth 1,
\* generate_irregular_grid returns X = {0, 400, 800} and Y = {0, 300, 600}.
C10_ScenarioBothSplits ==
    \A r \in Runs : (GridReturned(r) /\ Scenario800(dot[r].a, 1)) =>
        dot[r].xs = {0, 400, 800} /\ dot[r].ys = {0, 300, 600}

\* C10 as amended: for the 800x600 container at the origin and depth 1,
\* generate_irregular_grid returns X = {0, 400, 800} and Y = {0, 600} (depth 0
\* is the only split and it is vertical); Y = {0, 300, 600} is returned from
\* depth 2, whose second split is horizontal.
C10_ScenarioVerticalOnly ==
    \A r \in Runs : GridReturned(r) =>
        /\ Scenario800(dot[r].a, 1) => dot[r].xs = {0, 400, 800} /\ dot[r].ys = {0, 600}
        /\ Scenario800(dot[r].a, 2) => dot[r].xs = {0, 400, 800} /\ dot[r].ys = {0, 300, 600}

C10_Witness ==
    \E r \in Runs : GridReturned(r) /\ Scenario800(dot[r].a, 1) /\ 400 \in dot[r].xs

-----------------------------------------------------------------------------
(* Properties of doodle_wallpaper.py *)

\* the pixels [x, x + merge_w * w) x [y, y + merge_h * h) of two accepted
\* merges have nothing in common
FootprintsApart(p, q) ==
    \/ p.x + p.w * p.merge_w <= q.x
    \/ q.x + q.w * q.merge_w <= p.x
    \/ p.y + p.h * p.merge_h <= q.y
    \/ q.y + q.h * q.merge_h <= p.y

\* C1: in fill mode no two accepted merges share a unit cell: the footprint
\* keys of a merge are not in filled_cells when it is accepted (filled_cells is
\* the union of the footprints accepted before), so the footprints of all
\* accepted merges are pairwise disjoint, as key sets and as pixel areas.
C1_FootprintsDisjoint ==
    \A r \in Runs :
        /\ \A i \in 1 .. Len(accepted[r]) : \A j \in 1 .. Len(accepted[r]) :
             i < j => /\ accepted[r][i].keys \cap accepted[r][j].keys = {}
                      /\ FootprintsApart(accepted[r][i], accepted[r][j])
        /\ filled_cells[r] = UNION { accepted[r][i].keys : i \in 1 .. Len(accepted[r]) }

\* two merges have been accepted, one of them larger than one cell, and a
\* cell claimed by a merge has been reached by the walk afterwards
C1_Witness ==
    \E r \in Runs :
        /\ Len(accepted[r]) >= 2
        /\ \E i \in 1 .. Len(accepted[r]) :
             accepted[r][i].merge_w > 1 /\ accepted[r][i].merge_h > 1
        /\ stack[r] # <<>>
        /\ CellKey(Head(stack[r]).x, Head(stack[r]).y, Head(stack[r]).w, Head(stack[r]).h)
               \in filled_cells[r]

\* C2: in fill mode every rounded rectangle drawn lies inside the container:
\* container_x <= x1 < x2 <= container_x + container_w and
\* container_y <= y1 < y2 <= container_y + container_h.
C2_ShapeInContainer ==
    \A r \in Runs : \A k \in 1 .. Len(drawn[r]) :
        drawn[r][k].mon = mi[r] =>
            LET d == drawn[r][k].cmd
                c == cont[r]
            IN  /\ c.container_x <= d.x1 * Den
                /\ d.x1 < d.x2
                /\ d.x2 * Den <= c.container_x + c.container_w
                /\ c.container_y <= d.y1 * Den
                /\ d.y1 < d.y2
                /\ d.y2 * Den <= c.container_y + c.container_h

\* a merged shape reaching the right and bottom end of the container has been
\* drawn
C2_Witness ==
    \E r \in Runs : \E k \in 1 .. Len(drawn[r]) : \E i \in 1 .. Len(accepted[r]) :
        LET d == drawn[r][k].cmd
            p == accepted[r][i]
            c == cont[r]
        IN  /\ p.merge_w > 1 /\ p.merge_h > 1
            /\ d.x1 = PyInt(p.x + c.padding * Den)
            /\ d.y1 = PyInt(p.y + c.padding * Den)
            /\ p.x + p.w * p.merge_w = c.container_x + c.container_w
            /\ p.y + p.h * p.merge_h = c.container_y + c.container_h

-----------------------------------------------------------------------------
(* Properties of the quadrant scenario and of pairs of processes *)

\* the quadrant scenario: 1000 x 1000 at the origin, floor 2, start level 4,
\* fill probability 1.0, merge size 1
QuadScenario(r) ==
    /\ cfg.MIN_DEPTH = 2 /\ cfg.MAX_DEPTH = 4
    /\ cfg.FILL_PROBABILITY = 100 /\ cfg.MAX_MERGE_SIZE = 1
    /\ cont[r].container_x = 0 /\ cont[r].container_y = 0
    /\ cont[r].container_w = 1000 * Den /\ cont[r].container_h = 1000 * Den

\* C9: in the quadrant scenario the walk visits exactly 4^(4-2) = 16 leaf
\* cells of 250 x 250 and draws exactly 16 rectangles; a walk from level max
\* with floor min visits 4^(max-min) leaf cells.
C9_SixteenLeaves ==
    \A r \in Runs : (stack[r] = <<>> /\ cont[r].container_w = 1000 * Den) =>
        /\ leaves[r] = Pow(4, cfg.MAX_DEPTH - cfg.MIN_DEPTH)
        /\ QuadScenario(r) =>
             /\ leaves[r] = 16
             /\ Len(drawn[r]) = 16
             /\ \A k \in 1 .. Len(accepted[r]) :
                  accepted[r][k].w = 250 * Den /\ accepted[r][k].h = 250 * Den

\* the draw commands of run r for the k-th monitor of its list
PassCommands(r, k) ==
    LET mine == SelectSeq(drawn[r], LAMBDA e : e.mon = k)
    IN  [i \in 1 .. Len(mine) |-> mine[i].cmd]

IsPrefix(s, t) == Len(s) <= Len(t) /\ \A i \in 1 .. Len(s) : s[i] = t[i]

\* C7: two runs with identical configuration and the same fixed seed produce
\* the identical sequence of draw commands in fill mode (rectangles, radii
\* and colours, in order), and generate_irregular_grid called twice with the
\* same arguments returns the same X and Y sets.
C7_Deterministic ==
    Runs = {1, 2} =>
        /\ (cfg.RANDOM_SEED # "None" /\ monitors[1] = monitors[2]) =>
             /\ IsPrefix(drawn[2], drawn[1])
             /\ Finished(2) => drawn[2] = drawn[1]
        /\ (GridReturned(1) /\ GridReturned(2) /\ dot[1].a = dot[2].a) =>
             dot[2].xs = dot[1].xs /\ dot[2].ys = dot[1].ys

\* both runs have ended, on the same two monitors and the same grid arguments,
\* and have drawn on both monitors
C7_Witness ==
    /\ Runs = {1, 2}
    /\ Finished(1) /\ Finished(2)
    /\ cfg.RANDOM_SEED # "None"
    /\ monitors[1] = monitors[2]
    /\ Len(monitors[1]) = 2
    /\ Len(drawn[2]) = 2
    /\ drawn[2][1].cmd.fill # drawn[2][2].cmd.fill
    /\ GridReturned(2) /\ dot[1].a = dot[2].a /\ Cardinality(dot[2].xs) > 2

\* C8: with a fixed seed, the draw commands produced for a monitor do not
\* depend on the presence of a monitor processed earlier in the same run: a
\* run on the list <<a, m>> and a run on the list <<m>> draw the same commands
\* for m.
C8_PassIndependent ==
    (/\ Runs = {1, 2}
     /\ cfg.RANDOM_SEED # "None"
     /\ Finished(1) /\ Finished(2)
     /\ Len(monitors[1]) = 2 /\ Len(monitors[2]) = 1
     /\ monitors[1][2] = monitors[2][1])
        => PassCommands(1, 2) = PassCommands(2, 1)

-----------------------------------------------------------------------------
(* Properties of the handling of arguments *)

\* arguments that are a configuration error: a non-positive width or height,
\* a usable area of non-positive size, or a recursion depth <= 0
ConfigError(a) ==
    \/ a.width <= 0 \/ a.height <= 0
    \/ Usable(a).w <= 0 \/ Usable(a).h <= 0
    \/ a.max_depth <= 0

\* C11: a configuration error (non-positive width or height, a container of
\* non-positive size after subtracting bar and gaps, or a recursion depth <= 0)
\* is rejected before any partitioning: no coordinate is recorded, no split is
\* computed, no dot is drawn, and the call does not complete as a normal one.
C11_ConfigErrorRejected ==
    \A r \in Runs :
        (dot[r].phase # "off" /\ dot[r].a.mode = "irregular" /\ ConfigError(dot[r].a)) =>
            /\ dot[r].xs = {} /\ dot[r].ys = {}
            /\ Len(dot[r].rects) <= 1
            /\ dot[r].dot_positions = <<>>
            /\ dot[r].phase # "done"

-----------------------------------------------------------------------------
(* Properties of a claim attempt in fill mode *)

\* the leaf call of run r on the frame at the top of its stack left everything
\* as it was
LeafNoOp(r) ==
    /\ filled_cells'[r] = filled_cells[r]
    /\ drawn'[r] = drawn[r]
    /\ accepted'[r] = accepted[r]

\* the leaf call of run r claimed the merge_w x merge_h footprint of frame f
LeafClaimed(r, f, merge_w, merge_h) ==
    /\ CellKey(f.x, f.y, f.w, f.h) \notin filled_cells[r]
    /\ f.x + f.w * merge_w <= cont[r].container_x + cont[r].container_w
    /\ f.y + f.h * merge_h <= cont[r].container_y + cont[r].container_h
    /\ \A i \in 0 .. (merge_w - 1), j \in 0 .. (merge_h - 1) :
         CellKey(f.x + f.w * i, f.y + f.h * j, f.w, f.h) \notin filled_cells[r]
    /\ filled_cells'[r] = filled_cells[r] \cup
         { CellKey(f.x + f.w * i, f.y + f.h * j, f.w, f.h) :
             i \in 0 .. (merge_w - 1), j \in 0 .. (merge_h - 1) }
    /\ Len(accepted'[r]) = Len(accepted[r]) + 1
    /\ Len(drawn'[r]) \in { Len(drawn[r]), Len(drawn[r]) + 1 }
    /\ \A k \in 1 .. Len(drawn[r]) : drawn'[r][k] = drawn[r][k]

\* C12: a claim attempt in fill mode is all-or-nothing: a leaf that is not
\* accepted (key already claimed, fill declined, footprint beyond the far edge
\* or overlapping a claimed cell) leaves filled_cells unchanged and draws
\* nothing; an accepted leaf adds exactly its merge_w x merge_h footprint keys
\* and draws at most one shape.
C12_AllOrNothing ==
    [][ \A r \in Runs : leaves'[r] = leaves[r] + 1 =>
          \/ LeafNoOp(r)
          \/ \E merge_w \in 1 .. cfg.MAX_MERGE_SIZE, merge_h \in 1 .. cfg.MAX_MERGE_SIZE :
               LeafClaimed(r, Head(stack[r]), merge_w, merge_h) ]_vars

\* leaves have been refused and accepted in the same pass: a merge of more
\* than one cell was accepted and drawn, and a leaf was visited that claimed
\* nothing
C12_Witness ==
    \E r \in Runs :
        /\ leaves[r] > Len(accepted[r]) + 1
        /\ Len(drawn[r]) >= 1
        /\ \E i \in 1 .. Len(accepted[r]) :
             accepted[r][i].merge_w * accepted[r][i].merge_h > 1

-----------------------------------------------------------------------------
(* Properties of the traversal order in fill mode *)

\* run r accepts, in this step, a merge whose footprint holds a cell that was
\* visited before
ClaimsVisitedCell(r) ==
    /\ Len(accepted'[r]) = Len(accepted[r]) + 1
    /\ MergeCorners(accepted'[r][Len(accepted'[r])]) \cap VisitedCorners(r) # {}

\* C13 as stated: there are runs in which a cell that was visited and not
\* filled is later included in the accepted merge footprint of a cell visited
\* after it.
C13_DeclinedCellMergedLater ==
    <>(\E r \in Runs : \E i \in 1 .. Len(accepted[r]) : accepted[r][i].revisited # {})

\* C13 as amended: a cell whose fill was declined is not added to
\* filled_cells, but no cell visited after it takes it: the footprint of an
\* accepted merge holds no cell visited before the merge, and the cells visited
\* and left unclaimed stay unclaimed.
C13_VisitedCellNeverMerged ==
    [][ \A r \in Runs :
          /\ ~ClaimsVisitedCell(r)
          /\ leaves'[r] = leaves[r] + 1 =>
               \A p \in VisitedCorners(r) :
                   CellKey(p[1], p[2], Head(stack[r]).w, Head(stack[r]).h) \notin filled_cells[r]
                     => CellKey(p[1], p[2], Head(stack[r]).w, Head(stack[r]).h) \notin filled_cells'[r]
      ]_vars

\* a cell was visited and left unclaimed, and the cell to its right, visited
\* after it, has been accepted with a merge of more than one cell
C13_Witness ==
    \E r \in Runs : \E i \in 1 .. Len(accepted[r]) :
        LET m == accepted[r][i]
        IN  /\ m.merge_w * m.merge_h > 1
            /\ <<m.x - m.w, m.y>> \in VisitedCorners(r)
            /\ CellKey(m.x - m.w, m.y, m.w, m.h) \notin filled_cells[r]

-----------------------------------------------------------------------------
(* Properties of the line sets of generate_irregular_grid *)

\* the values v and 2*c - v for the edges v (on one axis) of the rectangles
EdgesAndMirrors(edges, c) == edges \cup { 2 * c - v : v \in edges }

XEdges(rects) == UNION { { rects[i].x, X1(rects[i]) } : i \in 1 .. Len(rects) }
YEdges(rects) == UNION { { rects[i].y, Y1(rects[i]) } : i \in 1 .. Len(rects) }

Reflected(S, lo, hi) == \A v \in S : (lo + hi) - v \in S

\* C15: the line sets returned by generate_irregular_grid are symmetric about
\* the centre of the usable area for every width, height, gaps and max_depth:
\* x is in xs iff (usable.x + usable.x1) - x is in xs, and y is in ys iff
\* (usable.y + usable.y1) - y is in ys, also when the usable width or height
\* is odd.
C15_GridSymmetric ==
    \A r \in Runs : GridReturned(r) =>
        LET usable == Usable(dot[r].a)
        IN  /\ Reflected(dot[r].xs, usable.x, X1(usable))
            /\ Reflected(dot[r].ys, usable.y, Y1(usable))

-----------------------------------------------------------------------------
(* scripts/generate_hyprlock_conf.py: write_conf *)

\* what a file can hold; "absent" stands for a path that does not exist
Contents == {"c1", "c2", "c3"}
FileStates == Contents \cup {"absent"}

\* The files of one output path: conf is the file at path, bak the file at
\* path + ".bak", parent tells whether the directory of path exists, and
\* bak_writable whether shutil.copy2(path, bak) can succeed (it raises when,
\* for instance, bak is a dangling link or a file the user may not write).
Files(conf, bak, bak_writable, parent) ==
    [conf |-> conf, bak |-> bak, bak_writable |-> bak_writable, parent |-> parent]

FileSystems ==
    { Files(c, b, w, TRUE) : c \in FileStates, b \in FileStates, w \in BOOLEAN }
        \cup { Files("absent", "absent", w, FALSE) : w \in BOOLEAN }

\* write_conf(path, content, make_backup): the files after the call
write_conf(f, content, make_backup) ==
    LET copied == f.conf # "absent" /\ make_backup /\ f.bak_writable
        backed == IF copied THEN [f EXCEPT !.bak = f.conf] ELSE f
    IN  [backed EXCEPT !.parent = TRUE, !.conf = content]

\* a call of write_conf as made by main; before is the file system at the call
ConfCall(content, make_backup, before) ==
    [fn |-> "write_conf", phase |-> "called", content |-> content,
     make_backup |-> make_backup, before |-> before]

\* main reaches write_conf(args.out, conf, make_backup = not args.no_backup)
CallWriteConf ==
    /\ task.fn = "write_conf"
    /\ task.phase = "returned"
    /\ \E content \in Contents, no_backup \in BOOLEAN :
         task' = ConfCall(content, ~no_backup, fs)
    /\ UNCHANGED <<wallpaperVars, fs>>

\* the body of write_conf
WriteConf ==
    /\ task.fn = "write_conf"
    /\ task.phase = "called"
    /\ fs' = write_conf(fs, task.content, task.make_backup)
    /\ task' = [task EXCEPT !.phase = "returned"]
    /\ UNCHANGED wallpaperVars

\* the state of the wallpaper generators while a script runs
InitNoWallpaper ==
    /\ cfg = NoSettings
    /\ tape = <<>>
    /\ monitors = [r \in {1} |-> <<>>]
    /\ mi = [r \in {1} |-> 0]
    /\ cont = [r \in {1} |-> NoContainer]
    /\ stack = [r \in {1} |-> <<>>]
    /\ filled_cells = [r \in {1} |-> {}]
    /\ drawn = [r \in {1} |-> <<>>]
    /\ accepted = [r \in {1} |-> <<>>]
    /\ pos = [r \in {1} |-> 0]
    /\ leaves = [r \in {1} |-> 0]
    /\ dot = [r \in {1} |-> NoDot]

\* generate_hyprlock_conf.py is run, once or repeatedly, on some output path
InitConf ==
    /\ InitNoWallpaper
    /\ fs \in FileSystems
    /\ \E content \in Contents, no_backup \in BOOLEAN :
         task = ConfCall(content, ~no_backup, fs)

NextConf ==
    \/ CallWriteConf
    \/ WriteConf

SpecConf == InitConf /\ [][NextConf]_vars

\* C16: write_conf never loses the previous configuration when backups are
\* enabled: after a call that overwrites an existing file with make_backup =
\* True, path + '.bak' holds the content the file had before the call and path
\* holds the new content; with make_backup = False the .bak file is neither
\* created nor changed.
C16_BackupKeepsPrevious ==
    (task.fn = "write_conf" /\ task.phase = "returned") =>
        /\ (task.make_backup /\ task.before.conf # "absent") =>
             fs.bak = task.before.conf /\ fs.conf = task.content
        /\ ~task.make_backup => fs.bak = task.before.bak

-----------------------------------------------------------------------------
(* scripts/wordclock.py: number_to_words, hour_word_12, make_phrase *)
(* A returned string is held as the sequence of its space-separated words. *)

\* _NUM_WORDS
NUM_WORDS ==
    [n \in (0 .. 20) \cup {30, 40, 50} |->
        CASE n = 0 -> "zero" [] n = 1 -> "one" [] n = 2 -> "two" [] n = 3 -> "three"
          [] n = 4 -> "four" [] n = 5 -> "five" [] n = 6 -> "six" [] n = 7 -> "seven"
          [] n = 8 -> "eight" [] n = 9 -> "nine" [] n = 10 -> "ten" [] n = 11 -> "eleven"
          [] n = 12 -> "twelve" [] n = 13 -> "thirteen" [] n = 14 -> "fourteen"
          [] n = 15 -> "fifteen" [] n = 16 -> "sixteen" [] n = 17 -> "seventeen"
          [] n = 18 -> "eighteen" [] n = 19 -> "nineteen" [] n = 20 -> "twenty"
          [] n = 30 -> "thirty" [] n = 40 -> "forty" [] n = 50 -> "fifty"]

\* _NUM_WORDS.get(n, ""), the empty string being the empty sequence of words
NumWordsGet(n) == IF n \in DOMAIN NUM_WORDS THEN <<NUM_WORDS[n]>> ELSE <<>>

\* ValueError has been raised instead of a value returned
Raised(words) == words = <<"ValueError">>

\* number_to_words without the test of the range 0..59
number_to_words_unchecked(n) ==
    IF n \in DOMAIN NUM_WORDS THEN <<NUM_WORDS[n]>>
    ELSE LET tens == (n \div 10) * 10
             ones == n % 10
             tens_word == NumWordsGet(tens)
             ones_word == NumWordsGet(ones)
         IN  IF tens_word # <<>> /\ ones_word # <<>> THEN tens_word \o ones_word
             ELSE IF tens_word # <<>> THEN tens_word ELSE ones_word

\* number_to_words(n); <<"ValueError">> stands for the exception raised
number_to_words(n) ==
    IF n < 0 \/ n > 59 THEN <<"ValueError">>
    ELSE IF n \in DOMAIN NUM_WORDS THEN <<NUM_WORDS[n]>>
    ELSE LET tens == (n \div 10) * 10
             ones == n % 10
             tens_word == NumWordsGet(tens)
             ones_word == NumWordsGet(ones)
         IN  IF tens_word # <<>> /\ ones_word # <<>> THEN tens_word \o ones_word
             ELSE IF tens_word # <<>> THEN tens_word ELSE ones_word

\* hour_word_12 without the replacement of 0 by 12
hour_word_12_zero(hour24) == number_to_words(hour24 % 12)

\* hour_word_12(hour24)
hour_word_12(hour24) ==
    LET h12 == hour24 % 12
    IN  number_to_words(IF h12 = 0 THEN 12 ELSE h12)

\* make_phrase(now) for now.hour = h, now.minute = m
make_phrase(h, m) ==
    IF h = 0 /\ m = 0 THEN <<"It's", "midnight">>
    ELSE IF h = 12 /\ m = 0 THEN <<"It's", "noon">>
    ELSE IF m = 0 THEN <<"It's">> \o hour_word_12(h) \o <<"o'clock">>
    ELSE IF m = 15 THEN <<"It's", "quarter", "past">> \o hour_word_12(h)
    ELSE IF m = 30 THEN <<"It's", "half", "past">> \o hour_word_12(h)
    ELSE IF m = 45 THEN <<"It's", "quarter", "to">> \o hour_word_12((h + 1) % 24)
    ELSE IF m < 30 THEN <<"It's">> \o number_to_words(m) \o <<"past">> \o hour_word_12(h)
    ELSE <<"It's">> \o number_to_words(60 - m) \o <<"to">> \o hour_word_12((h + 1) % 24)

\* the argument hour_word_12(hour24) passes to number_to_words
hour_arg_12(hour24) ==
    LET h12 == hour24 % 12
    IN  IF h12 = 0 THEN 12 ELSE h12

\* the arguments of the calls of number_to_words that make_phrase makes,
\* directly or through hour_word_12, in call order
number_calls(h, m) ==
    IF (h = 0 /\ m = 0) \/ (h = 12 /\ m = 0) THEN <<>>
    ELSE IF m = 0 \/ m = 15 \/ m = 30 THEN <<hour_arg_12(h)>>
    ELSE IF m = 45 THEN <<hour_arg_12((h + 1) % 24)>>
    ELSE IF m < 30 THEN <<m, hour_arg_12(h)>>
    ELSE <<60 - m, hour_arg_12((h + 1) % 24)>>

\* a call make_phrase(now); calls are the arguments number_to_words has been
\* called with
PhraseCall(h, m) ==
    [fn |-> "make_phrase", phase |-> "called", hour |-> h, minute |-> m, phrase |-> <<>>,
     calls |-> <<>>]

\* the body of make_phrase: it returns the phrase, or ends with the ValueError
\* of the first call of number_to_words that raises
MakePhrase ==
    /\ task.fn = "make_phrase"
    /\ task.phase = "called"
    /\ LET calls == number_calls(task.hour, task.minute)
           bad == { k \in 1 .. Len(calls) : Raised(number_to_words(calls[k])) }
       IN  task' = IF bad = {}
                   THEN [task EXCEPT !.phase = "returned", !.calls = calls,
                                     !.phrase = make_phrase(task.hour, task.minute)]
                   ELSE [task EXCEPT !.phase = "ValueError",
                                     !.calls = SubSeq(calls, 1, CHOOSE k \in bad : \A j \in bad : k <= j)]
    /\ UNCHANGED <<wallpaperVars, fs>>

\* wordclock.py is run at some time of the day
InitClock ==
    /\ InitNoWallpaper
    /\ fs = NoFiles
    /\ \E h \in 0 .. 23, m \in 0 .. 59 : task = PhraseCall(h, m)

NextClock == MakePhrase

SpecClock == InitClock /\ [][NextClock]_vars

\* the English words of 1 .. 20, in order
Words == <<"one", "two", "three", "four", "five", "six", "seven", "eight", "nine", "ten", "eleven", "twelve", "thirteen", "fourteen", "fifteen", "sixteen", "seventeen", "eighteen", "nineteen", "twenty">>

\* a count of minutes 1 .. 29 in words
Spelled(n) == IF n <= 20 THEN <<Words[n]>> ELSE <<"twenty", Words[n - 20]>>

\* an hour of the day as a 12-hour word: 0 and 12 are twelve
ClockHour(h) == <<Words[((h + 11) % 12) + 1]>>

\* the hour after h, 23 wrapping to 0
NextHour(h) == IF h = 23 THEN 0 ELSE h + 1

\* the phrase the time h:m is to be told by
Told(h, m) ==
    CASE h = 0 /\ m = 0 -> <<"It's", "midnight">>
      [] h = 12 /\ m = 0 -> <<"It's", "noon">>
      [] h \notin {0, 12} /\ m = 0 -> <<"It's">> \o ClockHour(h) \o <<"o'clock">>
      [] m = 15 -> <<"It's", "quarter", "past">> \o ClockHour(h)
      [] m = 30 -> <<"It's", "half", "past">> \o ClockHour(h)
      [] m = 45 -> <<"It's", "quarter", "to">> \o ClockHour(NextHour(h))
      [] m \in (1 .. 29) \ {15} -> <<"It's">> \o Spelled(m) \o <<"past">> \o ClockHour(h)
      [] m \in (31 .. 59) \ {45} -> <<"It's">> \o Spelled(60 - m) \o <<"to">> \o ClockHour(NextHour(h))

\* C17: for every hour 0..23 and minute 0..59 make_phrase returns "It's
\* midnight" at 00:00, "It's noon" at 12:00, "It's <hour> o'clock" at any other
\* full hour, "<minute> past <hour>" for minutes 1..30 (quarter past at 15,
\* half past at 30) and "<60 - minute> to <next hour>" for minutes 31..59
\* (quarter to at 45), the hours being 12-hour words (0 and 12 are twelve) and
\* the next hour of 23 being 0.
C17_PhraseTold ==
    (task.fn = "make_phrase" /\ task.phase = "returned") =>
        task.phrase = Told(task.hour, task.minute)

\* 23:59 has been told as "It's one to twelve": the next hour wrapped to 0,
\* which is twelve
C17_Witness ==
    /\ task.fn = "make_phrase"
    /\ task.phase = "returned"
    /\ task.hour = 23
    /\ task.minute = 59
    /\ task.phrase = <<"It's", "one", "to", "twelve">>

-----------------------------------------------------------------------------
(* dotted_wallpaper.py: split_rect called on its own *)

MaxSide == 12
MaxGap == 7

\* ratios in (0,1): those of generate_irregular_grid and two near the ends
SplitRatios == { ratios[i] : i \in 1 .. Len(ratios) } \cup { <<1, 20>>, <<19, 20>> }

\* rectangles with w, h >= 0
SplitRects == { Rect(o[1], o[2], w, h) : o \in { <<0, 0>>, <<3, 5>> }, w \in 0 .. MaxSide, h \in 0 .. MaxSide }

\* a call split_rect(rect, vertical, ratio, gaps_in)
SplitCall(rect, vertical, ratio, gaps_in) ==
    [fn |-> "split_rect", phase |-> "called", rect |-> rect, vertical |-> vertical,
     ratio |-> ratio, gaps_in |-> gaps_in, children |-> <<>>]

\* the body of split_rect
SplitRect ==
    /\ task.fn = "split_rect"
    /\ task.phase = "called"
    /\ task' = [task EXCEPT !.phase = "returned",
                            !.children = split_rect(task.rect, task.vertical, task.ratio, task.gaps_in)]
    /\ UNCHANGED <<wallpaperVars, fs>>

InitSplit ==
    /\ InitNoWallpaper
    /\ fs = NoFiles
    /\ \E rect \in SplitRects, vertical \in BOOLEAN, ratio \in SplitRatios, gaps_in \in 0 .. MaxGap :
          task = SplitCall(rect, vertical, ratio, gaps_in)

NextSplit == SplitRect

SpecSplit == InitSplit /\ [][NextSplit]_vars

\* split_rect has returned
SplitReturned == task.fn = "split_rect" /\ task.phase = "returned"

\* near and far edge of rectangle c on the axis split
Start(c, vertical) == IF vertical THEN c.x ELSE c.y
End(c, vertical) == IF vertical THEN X1(c) ELSE Y1(c)

\* rectangle c lies inside rectangle p
Inside(c, p) == c.x >= p.x /\ c.y >= p.y /\ X1(c) <= X1(p) /\ Y1(c) <= Y1(p)

\* rectangle c has p's extent on the axis that is not split
KeepsExtent(c, p, vertical) ==
    IF vertical THEN c.y = p.y /\ c.h = p.h ELSE c.x = p.x /\ c.w = p.w

\* C18: for every rectangle with w, h >= 0, every ratio in (0,1) and every
\* gaps_in >= 0 both children of split_rect have width and height >= 0, lie
\* inside the parent, keep the parent's extent on the axis not split, and do
\* not overlap: the first child's far edge is not beyond the second's near edge.
C18_ChildrenValid ==
    SplitReturned =>
        /\ \A k \in 1 .. 2 :
              /\ task.children[k].w >= 0
              /\ task.children[k].h >= 0
              /\ Inside(task.children[k], task.rect)
              /\ KeepsExtent(task.children[k], task.rect, task.vertical)
        /\ End(task.children[1], task.vertical) <= Start(task.children[2], task.vertical)

\* a split whose gap is wider than the rectangle: both children were clamped
\* to size zero on the split axis
C18_Witness ==
    /\ SplitReturned
    /\ task.vertical
    /\ task.rect.w = 2
    /\ task.gaps_in = 6
    /\ task.children[1].w = 0
    /\ task.children[2].w = 0

\* the raw split point of the call
SplitPoint ==
    Start(task.rect, task.vertical) + IntTimesRatio(IF task.vertical THEN task.rect.w ELSE task.rect.h, task.ratio)

\* neither inner edge of the call was clamped by max or min
Unclamped ==
    /\ SplitPoint - (task.gaps_in \div 2) >= Start(task.rect, task.vertical)
    /\ SplitPoint + (task.gaps_in \div 2) <= End(task.rect, task.vertical)

\* C19: for every gaps_in >= 0, even or odd, and every rectangle large enough
\* that neither child is clamped, the children of split_rect are exactly
\* gaps_in apart on the split axis: second.start - first.end = gaps_in.
C19_ExactGap ==
    (SplitReturned /\ Unclamped) =>
        Start(task.children[2], task.vertical) - End(task.children[1], task.vertical) = task.gaps_in

\* width or height of rectangle r is smaller than 2 * border_size + gaps_in
Smaller(r, a) ==
    \/ r.w < 2 * a.border_size + a.gaps_in
    \/ r.h < 2 * a.border_size + a.gaps_in

\* the children of rectangle r at the given depth that have positive size
SplitChildren(r, depth, a) ==
    LET ab == split_rect(r, IsVertical(depth), ratios[(depth % Len(ratios)) + 1], a.gaps_in)
        Positive(c) == c.w > 0 /\ c.h > 0
    IN  SelectSeq(ab, Positive)

\* the rectangles after one depth step when exactly the rectangles with a side
\* smaller than 2 * border_size + gaps_in are kept and all others are split
SplitUnlessSmaller(rects, depth, a) ==
    LET step[i \in 0 .. Len(rects)] ==
            IF i = 0 THEN <<>>
            ELSE step[i - 1] \o (IF Smaller(rects[i], a) THEN <<rects[i]>>
                                 ELSE SplitChildren(rects[i], depth, a))
    IN  step[Len(rects)]

\* C20: in generate_irregular_grid a rectangle is kept unsplit exactly when its
\* width or its height is smaller than 2 * border_size + gaps_in; a rectangle
\* with both sides at least that large, equal included, is split at every depth
\* step, and a rectangle kept at one depth is kept at every later depth.
C20_UnsplitExactlyWhenSmaller ==
    [][\A r \in Runs :
          (dot[r].phase = "grid" /\ dot'[r].phase = "grid" /\ dot'[r].depth = dot[r].depth + 1) =>
              dot'[r].rects = SplitUnlessSmaller(dot[r].rects, dot[r].depth, dot[r].a)]_vars

-----------------------------------------------------------------------------
(* Properties of the shapes drawn in fill mode *)

\* the draw command d has positive area and a radius within its bounds
ValidShape(d, c) ==
    /\ d.x2 > d.x1
    /\ d.y2 > d.y1
    /\ 0 <= d.radius
    /\ d.radius <= c.corner_radius
    /\ d.radius <= (d.x2 - d.x1) \div 2
    /\ d.radius <= (d.y2 - d.y1) \div 2

\* the padded rectangle of the accepted merge m has zero or negative area
PaddedEmpty(m, c) ==
    LET s == ShapeRect(m, m.merge_w, m.merge_h, c)
    IN  s.x2 <= s.x1 \/ s.y2 <= s.y1

\* C21: every shape drawn in fill mode has positive area and a valid corner
\* radius: rounded_rectangle is called only with x2 > x1 and y2 > y1 and with
\* 0 <= radius <= min(corner_radius, (x2 - x1) // 2, (y2 - y1) // 2), and an
\* accepted footprint whose padded rectangle has zero or negative area yields
\* no draw command.
C21_ShapeHasArea ==
    [][ \A r \in Runs :
          /\ \A k \in 1 .. Len(drawn'[r]) :
                drawn'[r][k].mon = mi'[r] => ValidShape(drawn'[r][k].cmd, cont'[r])
          /\ (Len(accepted'[r]) = Len(accepted[r]) + 1
                /\ PaddedEmpty(accepted'[r][Len(accepted'[r])], cont[r]))
             => drawn'[r] = drawn[r] ]_vars

\* in one pass a footprint whose padded rectangle is empty was accepted
\* without a draw command, and a wider one was accepted and drawn with a radius
\* below corner_radius
C21_Witness ==
    \E r \in Runs :
        /\ Len(accepted[r]) = 2
        /\ Len(drawn[r]) = 1
        /\ \E i \in 1 .. 2 : PaddedEmpty(accepted[r][i], cont[r])
        /\ drawn[r][1].cmd.radius < cont[r].corner_radius

-----------------------------------------------------------------------------
(* recursive_grid.py: draw_recursive and the main loop *)

\* largest DEPTH explored
MaxLevel == 3

\* the interpreter's limit on nested calls, counted from the first call of
\* draw_recursive: the nesting the largest DEPTH explored needs, which is also
\* the number of halvings the 1/Den units hold exactly (MaxLevel < SubPixelBits)
RecursionLimit == MaxLevel + 1

LINE_WIDTH_BASE == 2

\* the values of DEPTH explored
GridLevels == (0 - 2) .. MaxLevel

\* the container and line width the loop body computes for monitor m
\* (container in 1/Den pixel, line width in pixel)
GridSetup(m) ==
    LET bar_px == IntScaled(m.bar_logical_height, m.scale2)
        gap_px == IntScaled(m.gap_logical, m.scale2)
    IN  [container_x |-> gap_px * Den,
         container_y |-> (bar_px + gap_px) * Den,
         container_w |-> (m.width - gap_px * 2) * Den,
         container_h |-> (m.height - (bar_px + gap_px * 2)) * Den,
         line_width |-> Max2(1, IntScaled(LINE_WIDTH_BASE, m.scale2))]

\* the two draw.line calls of a call of draw_recursive on frame f
GridLines(f, line_width) ==
    LET mid_x == f.x + (f.w \div 2)
        mid_y == f.y + (f.h \div 2)
    IN  << [x1 |-> mid_x, y1 |-> f.y, x2 |-> mid_x, y2 |-> f.y + f.h, width |-> line_width],
           [x1 |-> f.x, y1 |-> mid_y, x2 |-> f.x + f.w, y2 |-> mid_y, width |-> line_width] >>

\* GridChildren with the right and bottom quadrants placed a full width and
\* height away
GridChildrenFar(f) ==
    LET new_w == f.w \div 2
        new_h == f.h \div 2
    IN  << Frame(f.x, f.y, new_w, new_h, f.level - 1),
           Frame(f.x + f.w, f.y, new_w, new_h, f.level - 1),
           Frame(f.x, f.y + f.h, new_w, new_h, f.level - 1),
           Frame(f.x + f.w, f.y + f.h, new_w, new_h, f.level - 1) >>

\* the four recursive calls of draw_recursive, in call order
GridChildren(f) ==
    LET new_w == f.w \div 2
        new_h == f.h \div 2
    IN  << Frame(f.x, f.y, new_w, new_h, f.level - 1),
           Frame(f.x + new_w, f.y, new_w, new_h, f.level - 1),
           Frame(f.x, f.y + new_h, new_w, new_h, f.level - 1),
           Frame(f.x + new_w, f.y + new_h, new_w, new_h, f.level - 1) >>

\* the number of nested calls of draw_recursive when frame f is entered
Nesting(f) == task.DEPTH - f.level + 1

\* a process of recursive_grid.py: its DEPTH and MONITORS, the number of passes
\* started, the container of the current pass, the pending calls of
\* draw_recursive (top = head), the draw.line calls made, the calls that
\* returned at level 0 in the current pass, and how the process stands
GridProcess(depth, ms) ==
    [fn |-> "recursive_grid", phase |-> "running", DEPTH |-> depth, monitors |-> ms, mi |-> 0,
     cont |-> NoContainer, stack |-> <<>>, lines |-> <<>>, leaves |-> 0]

GridRunning == task.fn = "recursive_grid" /\ task.phase = "running"

\* one iteration of `for m in MONITORS` up to the call of draw_recursive
GridPass ==
    /\ GridRunning
    /\ task.stack = <<>>
    /\ task.mi < Len(task.monitors)
    /\ LET c == GridSetup(task.monitors[task.mi + 1])
       IN  task' = [task EXCEPT !.mi = @ + 1, !.cont = c, !.leaves = 0,
                       !.stack = << Frame(c.container_x, c.container_y, c.container_w,
                                          c.container_h, task.DEPTH) >>]
    /\ UNCHANGED <<wallpaperVars, fs>>

\* draw_recursive at level 0: return
GridReturn ==
    /\ GridRunning
    /\ task.stack # <<>>
    /\ Nesting(Head(task.stack)) <= RecursionLimit
    /\ Head(task.stack).level = 0
    /\ task' = [task EXCEPT !.stack = Tail(@), !.leaves = @ + 1]
    /\ UNCHANGED <<wallpaperVars, fs>>

\* draw_recursive at any other level: the two lines and the four calls
GridSplit ==
    /\ GridRunning
    /\ task.stack # <<>>
    /\ Nesting(Head(task.stack)) <= RecursionLimit
    /\ Head(task.stack).level # 0
    /\ task' = [task EXCEPT
                  !.stack = GridChildren(Head(@)) \o Tail(@),
                  !.lines = @ \o [k \in 1 .. 2 |->
                                     [mon |-> task.mi,
                                      cmd |-> GridLines(Head(task.stack), task.cont.line_width)[k]]]]
    /\ UNCHANGED <<wallpaperVars, fs>>

\* a call nested deeper than the interpreter allows: RecursionError is raised
\* and, nothing catching it, ends the process
GridOverflow ==
    /\ GridRunning
    /\ task.stack # <<>>
    /\ Nesting(Head(task.stack)) > RecursionLimit
    /\ task' = [task EXCEPT !.phase = "RecursionError", !.stack = <<>>]
    /\ UNCHANGED <<wallpaperVars, fs>>

\* the MONITORS lists explored
GridMonitors ==
    { << Monitor("DP-1", 3840, 2160, 3, 38, 12), Monitor("eDP-1", 1920, 1200, 2, 38, 12) >>,
      << Monitor("small", 8, 11, 2, 1, 2) >> }

InitGrid ==
    /\ InitNoWallpaper
    /\ fs = NoFiles
    /\ \E depth \in GridLevels, ms \in GridMonitors : task = GridProcess(depth, ms)

NextGrid ==
    \/ GridPass
    \/ GridReturn
    \/ GridSplit
    \/ GridOverflow

SpecGrid == InitGrid /\ [][NextGrid]_vars

\* the process is not stopped from outside: it takes a step whenever it can
SpecGridFair == SpecGrid /\ WF_vars(NextGrid)

\* the MAX_DEPTH, monitor and bound on accepted merges of the processes of
\* doodle_wallpaper.py whose walk is followed next to that of recursive_grid.py
\* (the 8 x 8 grid is walked with every fill declined)
WalkStarts == { <<d, m, 1>> : d \in Depths, m \in MonitorSet } \cup { <<4, OddMonitor, 0>> }

\* One process of doodle_wallpaper.py started on one monitor, RANDOM_SEED = None.
InitWalkFill ==
    /\ fs = NoFiles
    /\ task = NoTask
    /\ \E s \in WalkStarts, max_merge_size \in MergeSizes :
         /\ cfg = Settings(MIN_DEPTH, s[1], 50, max_merge_size, <<"red">>, "None", s[3])
         /\ monitors = [r \in {1} |-> <<s[2]>>]
    /\ tape = <<>>
    /\ mi = [r \in {1} |-> 0]
    /\ cont = [r \in {1} |-> NoContainer]
    /\ stack = [r \in {1} |-> <<>>]
    /\ filled_cells = [r \in {1} |-> {}]
    /\ drawn = [r \in {1} |-> <<>>]
    /\ accepted = [r \in {1} |-> <<>>]
    /\ pos = [r \in {1} |-> 0]
    /\ leaves = [r \in {1} |-> 0]
    /\ dot = [r \in {1} |-> NoDot]

\* Both quadrant walks: a process of doodle_wallpaper.py or a process of
\* recursive_grid.py.
InitWalks == InitWalkFill \/ InitGrid

NextWalks ==
    \/ \E r \in Runs : StartPass(r)
    \/ \E r \in Runs : Subdivide(r)
    \/ \E r \in Runs : Leaf(r)
    \/ GridPass
    \/ GridReturn
    \/ GridSplit
    \/ GridOverflow

SpecWalks == InitWalks /\ [][NextWalks]_vars

-----------------------------------------------------------------------------
(* Properties of the quadrant walks *)

\* kids are the four quarters of frame p in the order top-left, top-right,
\* bottom-left, bottom-right: each has exactly half of p's width and height,
\* and they meet in p's midpoint
Quadrants(p, kids) ==
    /\ Len(kids) = 4
    /\ \A k \in 1 .. 4 : 2 * kids[k].w = p.w /\ 2 * kids[k].h = p.h
    /\ kids[1].x = p.x /\ kids[1].y = p.y
    /\ 2 * kids[2].x = 2 * p.x + p.w /\ kids[2].y = p.y
    /\ kids[3].x = p.x /\ 2 * kids[3].y = 2 * p.y + p.h
    /\ 2 * kids[4].x = 2 * p.x + p.w /\ 2 * kids[4].y = 2 * p.y + p.h

\* frame f is a cell of the grid of 2^n x 2^n equal cells that tiles container c
IsCell(f, c, n) ==
    /\ f.w * Pow(2, n) = c.container_w
    /\ f.h * Pow(2, n) = c.container_h
    /\ \E i \in 0 .. (Pow(2, n) - 1) : f.x = c.container_x + i * f.w
    /\ \E j \in 0 .. (Pow(2, n) - 1) : f.y = c.container_y + j * f.h

\* the top-left corners of the cells of that grid
CellCorners(c, n) ==
    { <<c.container_x + i * (c.container_w \div Pow(2, n)),
        c.container_y + j * (c.container_h \div Pow(2, n))>> :
        i \in 0 .. (Pow(2, n) - 1), j \in 0 .. (Pow(2, n) - 1) }

\* the corners no pending call of the stack st covers: the cells walked
Walked(st, c, n) ==
    { p \in CellCorners(c, n) :
        ~\E k \in 1 .. Len(st) :
            /\ st[k].x <= p[1] /\ p[1] < st[k].x + st[k].w
            /\ st[k].y <= p[2] /\ p[2] < st[k].y + st[k].h }

\* one step of a quadrant walk over container c with n subdivisions, from
\* pending calls st and count lc of leaves visited to st2 and lc2:
\*   a walk starts on the container itself;
\*   a subdivision replaces the first call by its four quarters, in order;
\*   a leaf visit takes the first call, which is a cell of the grid that was not
\*   walked before and that no other pending call covers, and when no call is
\*   left every cell of the grid has been walked, each once.
WalkStep(st, lc, st2, lc2, c, n) ==
    /\ (Len(st) = 0 /\ Len(st2) = 1) =>
          /\ st2[1].x = c.container_x /\ st2[1].y = c.container_y
          /\ st2[1].w = c.container_w /\ st2[1].h = c.container_h
          /\ lc2 = 0
    /\ (Len(st) > 0 /\ Len(st2) = Len(st) + 3) =>
          /\ Quadrants(Head(st), SubSeq(st2, 1, 4))
          /\ SubSeq(st2, 5, Len(st2)) = Tail(st)
          /\ Walked(st2, c, n) = Walked(st, c, n)
          /\ lc2 = lc
    /\ (Len(st) > 0 /\ Len(st2) = Len(st) - 1) =>
          /\ st2 = Tail(st)
          /\ IsCell(Head(st), c, n)
          /\ Walked(st2, c, n) = Walked(st, c, n) \cup { <<Head(st).x, Head(st).y>> }
          /\ <<Head(st).x, Head(st).y>> \notin Walked(st, c, n)
          /\ lc2 = lc + 1
          /\ Cardinality(Walked(st2, c, n)) = lc2
          /\ st2 = <<>> => lc2 = Pow(4, n)

\* C22: the quadrant walk tiles the container, in draw_recursive_shapes and in
\* draw_recursive: at every level the four children have exactly half the
\* parent's width and height, share the parent's midpoint and are visited in
\* the order top-left, top-right, bottom-left, bottom-right; the leaf cells are
\* pairwise disjoint, their union is the whole container, and each leaf is
\* visited exactly once.
C22_WalkTiles ==
    [][ /\ \A r \in Runs :
              (stack'[r] # stack[r] /\ mi'[r] > 0) =>
                  WalkStep(IF mi'[r] = mi[r] THEN stack[r] ELSE <<>>, leaves[r], stack'[r], leaves'[r], cont'[r], Subdivisions)
        /\ (task.fn = "recursive_grid" /\ task'.phase = "running" /\ task'.stack # task.stack) =>
              WalkStep(task.stack, task.leaves, task'.stack, task'.leaves, task'.cont, Max2(0, task.DEPTH)) ]_vars

\* draw_recursive has returned from a walk of 64 leaf cells on the second
\* monitor of the list
C22_Witness ==
    /\ task.fn = "recursive_grid"
    /\ task.mi = 2
    /\ task.stack = <<>>
    /\ task.leaves = 64

-----------------------------------------------------------------------------
(* Termination of the walk of recursive_grid.py *)

\* the process of recursive_grid.py has returned from the walk of every monitor
GridDone ==
    /\ task.fn = "recursive_grid"
    /\ task.phase = "running"
    /\ task.stack = <<>>
    /\ task.mi = Len(task.monitors)

\* C23: every recursive walk is depth-bounded and terminates for every integer
\* depth configuration; draw_recursive in particular returns for every integer
\* level, and for a level <= 0 it returns without having drawn anything.
C23_WalkTerminates == <>(GridDone /\ (task.DEPTH <= 0 => task.lines = <<>>))

-----------------------------------------------------------------------------
(* Errors of number_to_words *)

\* how far outside 0..59 the arguments of number_to_words explored reach
WordMargin == 5

\* a call number_to_words(n)
WordsCall(n) == [fn |-> "number_to_words", phase |-> "called", n |-> n, words |-> <<>>]

\* the body of number_to_words: it returns the words or raises ValueError
NumberToWords ==
    /\ task.fn = "number_to_words"
    /\ task.phase = "called"
    /\ LET words == number_to_words(task.n)
       IN  task' = IF Raised(words) THEN [task EXCEPT !.phase = "ValueError"]
                   ELSE [task EXCEPT !.phase = "returned", !.words = words]
    /\ UNCHANGED <<wallpaperVars, fs>>

\* number_to_words is called with an integer, or make_phrase with a time of day
InitWords ==
    /\ InitNoWallpaper
    /\ fs = NoFiles
    /\ \/ \E n \in (0 - WordMargin) .. (59 + WordMargin) : task = WordsCall(n)
       \/ \E h \in 0 .. 23, m \in 0 .. 59 : task = PhraseCall(h, m)

NextWords ==
    \/ NumberToWords
    \/ MakePhrase

SpecWords == InitWords /\ [][NextWords]_vars

\* C24: number_to_words raises ValueError exactly when n < 0 or n > 59 and
\* returns a non-empty string of words for every n in 0..59; make_phrase never
\* reaches that error: for every hour 0..23 and minute 0..59 every argument it
\* passes to number_to_words, directly or through hour_word_12, lies in 1..29,
\* and make_phrase returns a phrase.
C24_ValueErrorOutOfRangeOnly ==
    /\ (task.fn = "number_to_words" /\ task.phase # "called") =>
          /\ task.phase = "ValueError" <=> (task.n < 0 \/ task.n > 59)
          /\ task.n \in 0 .. 59 =>
                /\ task.phase = "returned"
                /\ task.words # <<>>
                /\ \A k \in 1 .. Len(task.words) : task.words[k] \notin {"", "ValueError"}
    /\ (task.fn = "make_phrase" /\ task.phase # "called") =>
          /\ task.phase = "returned"
          /\ \A k \in 1 .. Len(task.calls) : task.calls[k] \in 1 .. 29
          /\ task.phrase # <<>>

\* number_to_words has been called with 60, the first integer above the range,
\* and has raised ValueError
C24_Witness ==
    /\ task.fn = "number_to_words"
    /\ task.n = 60
    /\ task.phase = "ValueError"
====
